---------------------------- MODULE Spec2Model ----------------------------
(***************************************************************************)
(* configmerge: recursive merge of configuration trees (merge, merge_dict, *)
(* merge_list, merge_simple), the canonical form used for list             *)
(* deduplication (deep_freeze), and the command line entry point (main).   *)
(*                                                                         *)
(* Python objects are modelled with a heap: dicts and lists are mutable    *)
(* objects addressed by reference, scalars are immutable values held       *)
(* inline.  Every value is a record whose field k names its Python type.   *)
(***************************************************************************)
EXTENDS Integers, Sequences, FiniteSets, TLC

VARIABLES
    heap,    \* the dict and list objects: heap[a] is the object at address a
    arg1,    \* value1 / base of the call (a scalar or a reference)
    arg2,    \* value2 / incoming of the call
    call,    \* the call made so far: its name, the heap before it, its outcome
    chain,   \* a chain of merges d = merge(d, s) over several sources
    cli      \* a run of main: its position, its locals and the files

vars == <<heap, arg1, arg2, call, chain, cli>>

---------------------------------------------------------------------------
(* Bounds of the model. *)

MaxInt == 2        \* the ints of the documents are 1..MaxInt
MaxLen == 3        \* the longest list of ints of the documents
MaxSources == 2    \* the most sources of a chain of merges and of a run of main

---------------------------------------------------------------------------
(* Values.  Each type has its own field for what it holds.  A float is     *)
(* held as the number of halves it is worth, so 1.0 is PyFloat(2) and 1.5  *)
(* is PyFloat(3).  A str is held as the sequence of its characters.  A     *)
(* dict holds its items, <<key, value>> pairs, in insertion order.         *)

None == [k |-> "null"]
PyBool(b) == [k |-> "bool", b |-> b]
PyInt(i) == [k |-> "int", i |-> i]
PyFloat(halves) == [k |-> "float", f |-> halves]
PyStr(chars) == [k |-> "text", s |-> chars]
Ref(a) == [k |-> "ref", a |-> a]
PyDict(items) == [k |-> "map", m |-> items]
PyList(items) == [k |-> "seq", e |-> items]
FrozenOrderedDict(items) == [k |-> "frozendict", fm |-> items]
PyTuple(items) == [k |-> "tuple", t |-> items]

NoError == "none"
ErrImmutableMapping == "mapping must be mutable"
ErrNotMapping == "can only merge another mapping into mapping"
ErrImmutableSequence == "sequence must be mutable"
ErrNotSequence == "can only merge another sequence into sequence"
ErrSimple == "unsupported type or type combination"
TypeErrors ==
    {ErrImmutableMapping, ErrNotMapping, ErrImmutableSequence, ErrNotSequence, ErrSimple}

(* isinstance tests of the source. *)
IsNone(x) == x.k = "null"
IsBool(x) == x.k = "bool"
IsIntegral(x) == x.k \in {"bool", "int"}                 \* bool is a subclass of int
IsReal(x) == x.k \in {"bool", "int", "float"}            \* Integral is a subclass of Real
IsText(x) == x.k = "text"
IsMapping(h, x) == x.k = "ref" /\ h[x.a].k = "map"
IsMutableMapping(h, x) == IsMapping(h, x)                \* the loaders build dict only
IsSequence(h, x) == x.k = "text" \/ (x.k = "ref" /\ h[x.a].k = "seq")   \* str is a Sequence
IsMutableSequence(h, x) == x.k = "ref" /\ h[x.a].k = "seq"

(* Python's numeric value of a bool, int or float, in halves. *)
NumValue(x) ==
    CASE x.k = "bool" -> (IF x.b THEN 2 ELSE 0)
      [] x.k = "int" -> 2 * x.i
      [] x.k = "float" -> x.f

Keys(items) == {items[i][1] : i \in 1..Len(items)}
IndexOf(items, key) == CHOOSE i \in 1..Len(items) : items[i][1] = key
Lookup(items, key) == items[IndexOf(items, key)][2]

(* d[key] = value on a dict's items: a present key keeps its position. *)
SetItem(items, key, value) ==
    IF key \in Keys(items)
    THEN [items EXCEPT ![IndexOf(items, key)] = <<key, value>>]
    ELSE Append(items, <<key, value>>)

(* The items a for loop over a Sequence yields: a list's elements, a str's *)
(* characters as one-character strs.                                       *)
Elements(h, x) ==
    IF x.k = "text" THEN [i \in 1..Len(x.s) |-> PyStr(<<x.s[i]>>)] ELSE h[x.a].e

---------------------------------------------------------------------------
(* Outcome of a call: the heap it leaves, the value it returns, the        *)
(* message of the TypeError it raises (NoError when it returns).           *)

Return(h, value) == [h |-> h, v |-> value, err |-> NoError]
Raise(h, message) == [h |-> h, v |-> None, err |-> message]

(* A freshly parsed document: every dict and list of the tree t becomes a  *)
(* new object of the heap.                                                 *)
RECURSIVE load(_, _), load_dict(_, _, _, _), load_list(_, _, _, _)
load(h, t) ==
    IF t.k = "map"
    THEN LET r == load_dict(h, t.m, 1, <<>>)
         IN  [h |-> Append(r.h, PyDict(r.items)), v |-> Ref(Len(r.h) + 1)]
    ELSE IF t.k = "seq"
    THEN LET r == load_list(h, t.e, 1, <<>>)
         IN  [h |-> Append(r.h, PyList(r.items)), v |-> Ref(Len(r.h) + 1)]
    ELSE [h |-> h, v |-> t]

load_dict(h, pairs, i, acc) ==
    IF i > Len(pairs)
    THEN [h |-> h, items |-> acc]
    ELSE LET r == load(h, pairs[i][2])
         IN  load_dict(r.h, pairs, i + 1, Append(acc, <<pairs[i][1], r.v>>))

load_list(h, elems, i, acc) ==
    IF i > Len(elems)
    THEN [h |-> h, items |-> acc]
    ELSE LET r == load(h, elems[i])
         IN  load_list(r.h, elems, i + 1, Append(acc, r.v))

(* The tree a value stands for: references followed to the objects. *)
RECURSIVE Content(_, _)
Content(h, x) ==
    IF x.k # "ref" THEN x
    ELSE LET o == h[x.a]
         IN  IF o.k = "map"
             THEN PyDict([i \in 1..Len(o.m) |-> <<o.m[i][1], Content(h, o.m[i][2])>>])
             ELSE PyList([i \in 1..Len(o.e) |-> Content(h, o.e[i])])

---------------------------------------------------------------------------
(* deep_freeze: the immutable form of a value.  A dict becomes a           *)
(* FrozenOrderedDict (its items frozen, in the dict's order), a list a     *)
(* tuple; None, bool, int, float and str stay what they are.  The loaders   *)
(* build dict and list only, so the branches for immutable mappings and    *)
(* sequences and for unsupported types are never taken.                    *)

RECURSIVE deep_freeze(_, _)
deep_freeze(h, obj) ==
    IF IsNone(obj) THEN obj
    ELSE IF IsBool(obj) THEN PyBool(obj.b)
    ELSE IF IsIntegral(obj) THEN PyInt(obj.i)
    ELSE IF IsReal(obj) THEN PyFloat(obj.f)
    ELSE IF IsText(obj) THEN PyStr(obj.s)
    ELSE IF IsMapping(h, obj)
    THEN LET items == h[obj.a].m
         IN  FrozenOrderedDict(
                 [i \in 1..Len(items) |-> <<items[i][1], deep_freeze(h, items[i][2])>>])
    ELSE LET items == h[obj.a].e
         IN  PyTuple([i \in 1..Len(items) |-> deep_freeze(h, items[i])])

(* Python's == on frozen values, which is what a set's membership test     *)
(* uses (with a hash that agrees with it): bool, int and float compare by  *)
(* numeric value whatever their type; tuples compare item by item;         *)
(* FrozenOrderedDicts compare as dicts, whatever the order of their items. *)
RECURSIVE PyEquals(_, _)
PyEquals(x, y) ==
    IF IsReal(x) THEN IsReal(y) /\ NumValue(x) = NumValue(y)
    ELSE IF x.k = "tuple"
    THEN /\ y.k = "tuple"
         /\ Len(x.t) = Len(y.t)
         /\ \A i \in 1..Len(x.t) : PyEquals(x.t[i], y.t[i])
    ELSE IF x.k = "frozendict"
    THEN /\ y.k = "frozendict"
         /\ Keys(x.fm) = Keys(y.fm)
         /\ \A key \in Keys(x.fm) : PyEquals(Lookup(x.fm, key), Lookup(y.fm, key))
    ELSE x.k = y.k /\ x = y

(* frozen in member *)
Contains(member, frozen) == \E x \in member : PyEquals(frozen, x)

---------------------------------------------------------------------------
(* merge_simple: value2 when both values pass the same isinstance test. *)

(* merge_simple returning value1 where it should return value2. *)
merge_simple_keeping_first(value1, value2) ==
    IF IsBool(value1) /\ IsBool(value2) THEN [v |-> value1, err |-> NoError]
    ELSE IF IsIntegral(value1) /\ IsIntegral(value2) THEN [v |-> value1, err |-> NoError]
    ELSE IF IsReal(value1) /\ IsReal(value2) THEN [v |-> value1, err |-> NoError]
    ELSE IF IsText(value1) /\ IsText(value2) THEN [v |-> value1, err |-> NoError]
    ELSE [v |-> None, err |-> ErrSimple]

merge_simple(value1, value2) ==
    IF IsBool(value1) /\ IsBool(value2) THEN [v |-> value2, err |-> NoError]
    ELSE IF IsIntegral(value1) /\ IsIntegral(value2) THEN [v |-> value2, err |-> NoError]
    ELSE IF IsReal(value1) /\ IsReal(value2) THEN [v |-> value2, err |-> NoError]
    ELSE IF IsText(value1) /\ IsText(value2) THEN [v |-> value2, err |-> NoError]
    ELSE [v |-> None, err |-> ErrSimple]

(* merge_list: the loop over l2 from its i-th item on, member being the    *)
(* set built so far.  l2 is read from the current heap at every step, as a *)
(* Python for loop reads the list it iterates.                             *)
RECURSIVE merge_list_from(_, _, _, _, _)
(* merge_list's loop with member.add(frozen) left out. *)
merge_list_from_without_add(h, l1, l2, i, member) ==
    IF i > Len(Elements(h, l2))
    THEN Return(h, None)
    ELSE LET value == Elements(h, l2)[i]
             frozen == deep_freeze(h, value)
         IN  IF Contains(member, frozen)
             THEN merge_list_from(h, l1, l2, i + 1, member)
             ELSE merge_list_from([h EXCEPT ![l1.a].e = Append(@, value)],
                                  l1, l2, i + 1, member)

merge_list_from(h, l1, l2, i, member) ==
    IF i > Len(Elements(h, l2))
    THEN Return(h, None)
    ELSE LET value == Elements(h, l2)[i]
             frozen == deep_freeze(h, value)
         IN  IF Contains(member, frozen)
             THEN merge_list_from(h, l1, l2, i + 1, member)
             ELSE merge_list_from([h EXCEPT ![l1.a].e = Append(@, value)],
                                  l1, l2, i + 1, member \cup {frozen})

(* merge_list with member starting as the empty set instead of the frozen *)
(* items of l1.                                                            *)
merge_list_member_empty(h, l1, l2) == merge_list_from(h, l1, l2, 1, {})

(* merge_list written as l1.extend(l2): every item of l2, as l2 is when    *)
(* the call starts, is appended, with no membership test.                  *)
merge_list_extending(h, l1, l2) ==
    Return([h EXCEPT ![l1.a].e = @ \o Elements(h, l2)], None)

merge_list(h, l1, l2) ==
    merge_list_from(h, l1, l2, 1,
                    {deep_freeze(h, h[l1.a].e[i]) : i \in 1..Len(h[l1.a].e)})

(* merge and merge_dict.  merge_dict_from is the loop over d2.items() from *)
(* its i-th item on; a TypeError raised below it ends the loop with the    *)
(* heap as the items before have left it.                                  *)
RECURSIVE merge(_, _, _), merge_dict_from(_, _, _, _)
(* merge_dict's loop assigning the incoming value to a key d1 has already, *)
(* without merging it.                                                     *)
merge_dict_from_overwriting(h, d1, d2, i) ==
    IF i > Len(h[d2.a].m)
    THEN Return(h, None)
    ELSE LET key == h[d2.a].m[i][1]
             value == h[d2.a].m[i][2]
         IN  merge_dict_from([h EXCEPT ![d1.a].m = SetItem(@, key, value)], d1, d2, i + 1)

(* merge_dict's loop passing over a key d1 has not, without inserting it. *)
merge_dict_from_skipping_new(h, d1, d2, i) ==
    IF i > Len(h[d2.a].m)
    THEN Return(h, None)
    ELSE LET key == h[d2.a].m[i][1]
             value == h[d2.a].m[i][2]
         IN  IF key \notin Keys(h[d1.a].m)
             THEN merge_dict_from(h, d1, d2, i + 1)
             ELSE LET r == merge(h, Lookup(h[d1.a].m, key), value)
                  IN  IF r.err # NoError
                      THEN r
                      ELSE merge_dict_from([r.h EXCEPT ![d1.a].m = SetItem(@, key, r.v)],
                                           d1, d2, i + 1)

merge_dict_from(h, d1, d2, i) ==
    IF i > Len(h[d2.a].m)
    THEN Return(h, None)
    ELSE LET key == h[d2.a].m[i][1]
             value == h[d2.a].m[i][2]
         IN  IF key \notin Keys(h[d1.a].m)
             THEN merge_dict_from([h EXCEPT ![d1.a].m = SetItem(@, key, value)],
                                  d1, d2, i + 1)
             ELSE LET r == merge(h, Lookup(h[d1.a].m, key), value)
                  IN  IF r.err # NoError
                      THEN r
                      ELSE merge_dict_from([r.h EXCEPT ![d1.a].m = SetItem(@, key, r.v)],
                                           d1, d2, i + 1)

merge_dict(h, d1, d2) == merge_dict_from(h, d1, d2, 1)

(* merge with a slip in its second rule: a None base returns the base. *)
merge_returning_none_base(h, value1, value2) ==
    IF IsNone(value2) THEN Return(h, value1)
    ELSE IF IsNone(value1) THEN Return(h, value1)
    ELSE IF IsMapping(h, value1)
    THEN IF ~IsMutableMapping(h, value1) THEN Raise(h, ErrImmutableMapping)
         ELSE IF ~IsMapping(h, value2) THEN Raise(h, ErrNotMapping)
         ELSE LET r == merge_dict(h, value1, value2)
              IN  IF r.err # NoError THEN r ELSE Return(r.h, value1)
    ELSE IF IsSequence(h, value1) /\ ~IsText(value1)
    THEN IF ~IsMutableSequence(h, value1) THEN Raise(h, ErrImmutableSequence)
         ELSE IF ~IsSequence(h, value2) THEN Raise(h, ErrNotSequence)
         ELSE LET r == merge_list(h, value1, value2)
              IN  Return(r.h, value1)
    ELSE LET r == merge_simple(value1, value2)
         IN  [h |-> h, v |-> r.v, err |-> r.err]

(* merge letting a value that is no mapping take the place of a mapping. *)
merge_replacing_mapping(h, value1, value2) ==
    IF IsNone(value2) THEN Return(h, value1)
    ELSE IF IsNone(value1) THEN Return(h, value2)
    ELSE IF IsMapping(h, value1)
    THEN IF ~IsMutableMapping(h, value1) THEN Raise(h, ErrImmutableMapping)
         ELSE IF ~IsMapping(h, value2) THEN Return(h, value2)
         ELSE LET r == merge_dict(h, value1, value2)
              IN  IF r.err # NoError THEN r ELSE Return(r.h, value1)
    ELSE IF IsSequence(h, value1) /\ ~IsText(value1)
    THEN IF ~IsMutableSequence(h, value1) THEN Raise(h, ErrImmutableSequence)
         ELSE IF ~IsSequence(h, value2) THEN Raise(h, ErrNotSequence)
         ELSE LET r == merge_list(h, value1, value2)
              IN  Return(r.h, value1)
    ELSE LET r == merge_simple(value1, value2)
         IN  [h |-> h, v |-> r.v, err |-> r.err]

merge(h, value1, value2) ==
    IF IsNone(value2) THEN Return(h, value1)
    ELSE IF IsNone(value1) THEN Return(h, value2)
    ELSE IF IsMapping(h, value1)
    THEN IF ~IsMutableMapping(h, value1) THEN Raise(h, ErrImmutableMapping)
         ELSE IF ~IsMapping(h, value2) THEN Raise(h, ErrNotMapping)
         ELSE LET r == merge_dict(h, value1, value2)
              IN  IF r.err # NoError THEN r ELSE Return(r.h, value1)
    ELSE IF IsSequence(h, value1) /\ ~IsText(value1)
    THEN IF ~IsMutableSequence(h, value1) THEN Raise(h, ErrImmutableSequence)
         ELSE IF ~IsSequence(h, value2) THEN Raise(h, ErrNotSequence)
         ELSE LET r == merge_list(h, value1, value2)
              IN  Return(r.h, value1)
    ELSE LET r == merge_simple(value1, value2)
         IN  [h |-> h, v |-> r.v, err |-> r.err]

---------------------------------------------------------------------------
(* The documents of the model: the configuration trees a call is given.    *)

SeqsOver(X, n) == UNION {[1..m -> X] : m \in 0..n}

DictKeys == {"a", "b"}
DictsOver(X) ==
    {PyDict(items) : items \in
        {its \in SeqsOver(DictKeys \X X, Cardinality(DictKeys)) :
            \A i, j \in 1..Len(its) : i # j => its[i][1] # its[j][1]}}
ListsOver(X, n) == {PyList(items) : items \in SeqsOver(X, n)}

IntValues == {PyInt(i) : i \in 1..MaxInt}
Scalars ==
    {None, PyBool(TRUE), PyBool(FALSE), PyFloat(2), PyFloat(3),
     PyStr(<<"a">>), PyStr(<<"a", "b">>)} \cup IntValues

(* Containers of scalars: short lists and dicts over one value of each     *)
(* kind (True, 1 and 1.0 are equal numbers of three types) and every int,  *)
(* and the lists of ints up to the longest length.                         *)
Items == {None, PyBool(TRUE), PyFloat(2), PyStr(<<"a">>)} \cup IntValues
Flat == ListsOver(Items, 2) \cup ListsOver(IntValues, MaxLen) \cup DictsOver(Items)

(* Containers of containers: a list of one, or a dict with one key, whose  *)
(* value is a list or a dict of numbers.                                   *)
InnerItems == IntValues \cup {PyFloat(2)}
Inner == ListsOver(InnerItems, 2) \cup DictsOver(InnerItems)
Nested == ListsOver(Inner, 1) \cup {PyDict(<< <<"a", x>> >>) : x \in Inner}

(* The examples of the doctests (merge_list, merge_dict, merge) and the     *)
(* nested example of the specification.                                    *)
Examples ==
    {PyList(<<PyInt(1), PyInt(2), PyInt(1)>>),
     PyList(<<PyInt(3), PyInt(4), PyInt(1), PyInt(5)>>),
     PyDict(<< <<"a", PyInt(1)>>, <<"b", PyInt(2)>> >>),
     PyDict(<< <<"b", PyInt(3)>>, <<"c", PyInt(4)>> >>),
     PyList(<<PyInt(1), PyInt(2)>>),
     PyList(<<PyInt(3), PyInt(4)>>),
     PyDict(<< <<"a", PyDict(<< <<"x", PyInt(1)>>, <<"y", PyInt(2)>> >>)>> >>),
     PyDict(<< <<"a", PyDict(<< <<"y", PyInt(3)>>, <<"z", PyInt(4)>> >>)>> >>)}

Docs == Scalars \cup Flat \cup Nested \cup Examples

---------------------------------------------------------------------------
(* The calls.  The two arguments are built as two independent trees; one   *)
(* call is made on them.                                                   *)

NoCall == [op |-> "none", h0 |-> <<>>, v |-> None, err |-> NoError, f1 |-> None, f2 |-> None]
NoChain == [last |-> "idle"]
NoCli == [pc |-> "idle"]

Init ==
    \E x \in Docs, y \in Docs :
        LET r1 == load(<<>>, x)
            r2 == load(r1.h, y)
        IN  /\ heap = r2.h
            /\ arg1 = r1.v
            /\ arg2 = r2.v
            /\ call = NoCall
            /\ chain = NoChain
            /\ cli = NoCli

(* merge(arg1, arg2) *)
CallMerge ==
    /\ call.op = "none"
    /\ LET r == merge(heap, arg1, arg2)
       IN  /\ heap' = r.h
           /\ call' = [NoCall EXCEPT !.op = "merge", !.h0 = heap, !.v = r.v, !.err = r.err]
    /\ UNCHANGED <<arg1, arg2, chain, cli>>

(* merge_simple(arg1, arg2) *)
CallMergeSimple ==
    /\ call.op = "none"
    /\ LET r == merge_simple(arg1, arg2)
       IN  call' = [NoCall EXCEPT !.op = "merge_simple", !.h0 = heap, !.v = r.v, !.err = r.err]
    /\ UNCHANGED <<heap, arg1, arg2, chain, cli>>

(* deep_freeze(arg1) and deep_freeze(arg2) *)
CallDeepFreeze ==
    /\ call.op = "none"
    /\ call' = [NoCall EXCEPT !.op = "deep_freeze", !.h0 = heap,
                              !.f1 = deep_freeze(heap, arg1),
                              !.f2 = deep_freeze(heap, arg2)]
    /\ UNCHANGED <<heap, arg1, arg2, chain, cli>>

Next == CallMerge \/ CallMergeSimple \/ CallDeepFreeze

Spec == Init /\ [][Next]_vars

---------------------------------------------------------------------------
(* What a state says about the call it records. *)

Called(op) == call.op = op
Returned == call.err = NoError
Raised == call.err \in TypeErrors
Base0 == Content(call.h0, arg1)          \* the base as it was before the call
Incoming0 == Content(call.h0, arg2)      \* the incoming value as it was before the call
BaseNow == Content(heap, arg1)           \* the base as the call has left it
IsList(t) == t.k = "seq"
IsDict(t) == t.k = "map"
ScalarKinds == {"bool", "int", "float", "text"}

(* C1: Null is a two-sided identity of merge: merge(x, None) returns x and *)
(* merge(None, x) returns x, the very value it was given, with the content *)
(* it had, and neither call fails nor changes any object.                  *)
C1_NullIdentity ==
    Called("merge") =>
        /\ IsNone(arg2) =>
                Returned /\ call.v = arg1 /\ Content(heap, call.v) = Base0 /\ heap = call.h0
        /\ IsNone(arg1) =>
                Returned /\ call.v = arg2 /\ Content(heap, call.v) = Incoming0 /\ heap = call.h0

C1_Witness ==
    /\ Called("merge") /\ IsNone(arg1)
    /\ IsDict(Incoming0) /\ Len(Incoming0.m) = 2 /\ call.v = arg2

(* Two values have equal canonical forms. *)
SameCanonical(h, x, y) == PyEquals(deep_freeze(h, x), deep_freeze(h, y))

(* The positions among the first n of I that C2 says are appended to B:    *)
(* those whose canonical form equals that of no element of B and of no     *)
(* element of I appended before.                                           *)
RECURSIVE AppendedOf(_, _, _, _)
AppendedOf(h, B, I, n) ==
    IF n = 0 THEN {}
    ELSE LET before == AppendedOf(h, B, I, n - 1)
         IN  IF /\ \A b \in 1..Len(B) : ~SameCanonical(h, I[n], B[b])
                /\ \A j \in before : ~SameCanonical(h, I[n], I[j])
             THEN before \cup {n}
             ELSE before

(* The elements of I at the positions R among its first n, in I's order. *)
RECURSIVE Pick(_, _, _)
Pick(I, R, n) ==
    IF n = 0 THEN <<>>
    ELSE IF n \in R THEN Append(Pick(I, R, n - 1), I[n]) ELSE Pick(I, R, n - 1)

IntList(ns) == PyList([i \in 1..Len(ns) |-> PyInt(ns[i])])

(* C2: merging a list into a list succeeds and leaves base holding its     *)
(* original elements in their order, its own duplicates included, followed *)
(* by the elements of incoming, in incoming's order, whose canonical form  *)
(* equals that of no original element of base and of no element appended   *)
(* before; merge([1,2,1], [3,4,1,5]) gives [1,2,1,3,4,5].                   *)
C2_SequenceMergeResult ==
    (Called("merge") /\ IsList(Base0) /\ IsList(Incoming0)) =>
        LET B == call.h0[arg1.a].e
            I == call.h0[arg2.a].e
            R == AppendedOf(call.h0, B, I, Len(I))
        IN  /\ Returned
            /\ call.v = arg1
            /\ heap[arg1.a].e = B \o Pick(I, R, Len(I))
            /\ BaseNow = PyList(Base0.e \o Pick(Incoming0.e, R, Len(I)))
            /\ (Base0 = IntList(<<1, 2, 1>>) /\ Incoming0 = IntList(<<3, 4, 1, 5>>))
                   => BaseNow = IntList(<<1, 2, 1, 3, 4, 5>>)

C2_Witness ==
    /\ Called("merge") /\ IsList(Base0) /\ IsList(Incoming0)
    /\ Len(Base0.e) = 2 /\ Base0.e[1] = Base0.e[2]
    /\ Len(Incoming0.e) = 2 /\ Incoming0.e[1] = Incoming0.e[2]
    /\ Len(BaseNow.e) = 3

IntDict(keys, ns) == PyDict([i \in 1..Len(keys) |-> <<keys[i], PyInt(ns[i])>>])

(* C3: after a successful merge of two dicts, every key they share holds   *)
(* what merge gives for the two values it had in base and in incoming (a   *)
(* same-kind scalar is the incoming one), and a key of base alone keeps    *)
(* its value; merge({a:{x:1,y:2}}, {a:{y:3,z:4}}) gives {a:{x:1,y:3,z:4}}.  *)
C3_SharedKeysMerged ==
    (Called("merge") /\ IsDict(Base0) /\ IsDict(Incoming0) /\ Returned) =>
        LET d1 == call.h0[arg1.a].m
            d2 == call.h0[arg2.a].m
            now == heap[arg1.a].m
        IN  /\ call.v = arg1
            /\ \A key \in Keys(d1) :
                   /\ key \in Keys(now)
                   /\ IF key \in Keys(d2)
                      THEN LET r == merge(call.h0, Lookup(d1, key), Lookup(d2, key))
                           IN  /\ r.err = NoError
                               /\ Content(heap, Lookup(now, key)) = Content(r.h, r.v)
                               /\ (/\ Lookup(d1, key).k = Lookup(d2, key).k
                                   /\ Lookup(d1, key).k \in ScalarKinds)
                                      => Lookup(now, key) = Lookup(d2, key)
                      ELSE /\ Lookup(now, key) = Lookup(d1, key)
                           /\ Content(heap, Lookup(now, key)) = Content(call.h0, Lookup(d1, key))
            /\ (/\ Base0 = PyDict(<< <<"a", IntDict(<<"x", "y">>, <<1, 2>>)>> >>)
                /\ Incoming0 = PyDict(<< <<"a", IntDict(<<"y", "z">>, <<3, 4>>)>> >>))
                   => BaseNow = PyDict(<< <<"a", IntDict(<<"x", "y", "z">>, <<1, 3, 4>>)>> >>)

C3_Witness ==
    /\ Called("merge") /\ Returned
    /\ Base0 = PyDict(<< <<"a", IntDict(<<"x", "y">>, <<1, 2>>)>> >>)
    /\ Incoming0 = PyDict(<< <<"a", IntDict(<<"y", "z">>, <<3, 4>>)>> >>)
    /\ BaseNow = PyDict(<< <<"a", IntDict(<<"x", "y", "z">>, <<1, 3, 4>>)>> >>)

(* C4: merging two dicts that share no key succeeds whatever their values  *)
(* are; base then has exactly the keys of both, each key of base with the  *)
(* value it had and each key of incoming with incoming's value itself.     *)
C4_DisjointKeyUnion ==
    (/\ Called("merge") /\ IsDict(Base0) /\ IsDict(Incoming0)
     /\ Keys(Base0.m) \cap Keys(Incoming0.m) = {}) =>
        LET d1 == call.h0[arg1.a].m
            d2 == call.h0[arg2.a].m
            now == heap[arg1.a].m
        IN  /\ Returned
            /\ call.v = arg1
            /\ Keys(now) = Keys(d1) \cup Keys(d2)
            /\ Len(now) = Len(d1) + Len(d2)
            /\ \A key \in Keys(d1) :
                   /\ Lookup(now, key) = Lookup(d1, key)
                   /\ Content(heap, Lookup(now, key)) = Content(call.h0, Lookup(d1, key))
            /\ \A key \in Keys(d2) :
                   /\ Lookup(now, key) = Lookup(d2, key)
                   /\ Content(heap, Lookup(now, key)) = Content(call.h0, Lookup(d2, key))

C4_Witness ==
    /\ Called("merge") /\ IsDict(Base0) /\ IsDict(Incoming0) /\ Returned
    /\ Keys(Base0.m) = {"b"} /\ Keys(Incoming0.m) = {"a"}
    /\ IsDict(Lookup(Incoming0.m, "a")) /\ Len(Lookup(Incoming0.m, "a").m) = 2
    /\ Keys(BaseNow.m) = {"a", "b"}

(* C5: for two scalars of the same kind (both bool, both int, both float   *)
(* or both str) merge and merge_simple return the second.                  *)
C5_ScalarPrecedence ==
    (/\ Called("merge") \/ Called("merge_simple")
     /\ arg1.k \in ScalarKinds /\ arg2.k = arg1.k) =>
        Returned /\ call.v = arg2

C5_Witness ==
    /\ Called("merge_simple") /\ arg1 = PyInt(1) /\ arg2 = PyInt(2)
    /\ Returned /\ call.v = PyInt(2)

(* C6: merge_simple, and merge where it comes to merge_simple, raises      *)
(* TypeError for two non-None values of different kinds among bool, int,   *)
(* float and str and when either is a dict or a list; it returns only for  *)
(* two scalars of the same kind.                                           *)
C6_KindMismatchFails ==
    /\ Called("merge_simple") =>
           /\ (/\ ~IsNone(arg1) /\ ~IsNone(arg2)
               /\ arg1.k # arg2.k \/ arg1.k \notin ScalarKinds) => call.err = ErrSimple
           /\ Returned => (arg1.k = arg2.k /\ arg1.k \in ScalarKinds)
    /\ (Called("merge") /\ arg1.k \in ScalarKinds /\ ~IsNone(arg2)) =>
           /\ arg1.k # arg2.k => call.err = ErrSimple
           /\ Returned => arg1.k = arg2.k

(* C7: with a list as base, merge raises TypeError for every incoming      *)
(* value that is neither None nor a list: a bool, an int, a float, a dict  *)
(* and a str, whose characters are never appended to base.                 *)
C7_ListBaseRequiresList ==
    (Called("merge") /\ IsList(Base0) /\ ~IsNone(arg2) /\ ~IsList(Incoming0)) =>
        Raised /\ BaseNow = Base0

(* Base holds a dict where incoming holds a value that is neither None nor *)
(* a dict, at the top or under keys both have.                             *)
RECURSIVE MappingConflict(_, _)
MappingConflict(base, incoming) ==
    /\ IsDict(base)
    /\ ~IsNone(incoming)
    /\ \/ ~IsDict(incoming)
       \/ \E key \in Keys(base.m) \cap Keys(incoming.m) :
              MappingConflict(Lookup(base.m, key), Lookup(incoming.m, key))

(* C8: with a dict as base, merge raises TypeError for every incoming      *)
(* value that is neither None nor a dict, at the top level and under every *)
(* key both sides have; and whatever the call does, a key that held a dict *)
(* before it holds that dict after it.                                     *)
C8_DictBaseRequiresDict ==
    Called("merge") =>
        /\ (IsDict(Base0) /\ ~IsNone(arg2) /\ ~IsDict(Incoming0)) =>
               call.err = ErrNotMapping /\ heap = call.h0
        /\ MappingConflict(Base0, Incoming0) => Raised
        /\ \A a \in DOMAIN call.h0 :
               call.h0[a].k = "map" =>
                   \A key \in Keys(call.h0[a].m) :
                       IsMapping(call.h0, Lookup(call.h0[a].m, key)) =>
                           /\ heap[a].k = "map"
                           /\ key \in Keys(heap[a].m)
                           /\ Lookup(heap[a].m, key) = Lookup(call.h0[a].m, key)
                           /\ IsMapping(heap, Lookup(heap[a].m, key))

C8_Witness ==
    /\ Called("merge") /\ IsDict(Base0) /\ IsDict(Incoming0)
    /\ Keys(Base0.m) = {"a"} /\ "a" \in Keys(Incoming0.m)
    /\ IsDict(Lookup(Base0.m, "a"))
    /\ Lookup(Incoming0.m, "a").k = "int"
    /\ call.err = ErrNotMapping
    /\ IsDict(Lookup(BaseNow.m, "a"))

(* Structural equivalence of two configuration trees: dicts with the same  *)
(* keys and equivalent values whatever their order, lists of the same      *)
(* length with equivalent elements at each position, scalars of the same   *)
(* kind and value.                                                         *)
RECURSIVE Equivalent(_, _)
Equivalent(x, y) ==
    IF IsDict(x)
    THEN /\ IsDict(y)
         /\ Keys(x.m) = Keys(y.m)
         /\ \A key \in Keys(x.m) : Equivalent(Lookup(x.m, key), Lookup(y.m, key))
    ELSE IF IsList(x)
    THEN /\ IsList(y)
         /\ Len(x.e) = Len(y.e)
         /\ \A i \in 1..Len(x.e) : Equivalent(x.e[i], y.e[i])
    ELSE x.k = y.k /\ x = y

(* C9: deep_freeze(x) equals deep_freeze(y) if and only if x and y are     *)
(* structurally equivalent.                                                *)
C9_CanonicalFormDecidesEquivalence ==
    Called("deep_freeze") => (PyEquals(call.f1, call.f2) <=> Equivalent(Base0, Incoming0))

(* C10: an int and a float of equal magnitude have canonical forms that    *)
(* are not equal, and merging a list into a list appends every incoming    *)
(* int or float when the items before it (those of base and the earlier    *)
(* ones of incoming) are ints and floats other than it.                    *)
C10_NumericKindsDistinct ==
    /\ (Called("deep_freeze") /\ {arg1.k, arg2.k} = {"int", "float"}) =>
           ~PyEquals(call.f1, call.f2)
    /\ (Called("merge") /\ IsList(Base0) /\ IsList(Incoming0)) =>
           \A i \in 1..Len(Incoming0.e) :
               LET x == Incoming0.e[i]
                   before == Base0.e \o SubSeq(Incoming0.e, 1, i - 1)
               IN  (/\ x.k \in {"int", "float"}
                    /\ \A j \in 1..Len(before) :
                           before[j].k \in {"int", "float"} /\ before[j] # x)
                       => \E j \in (Len(Base0.e) + 1)..Len(BaseNow.e) : BaseNow.e[j] = x

---------------------------------------------------------------------------
(* A chain of merges, d = merge(d, s) for each source s in turn, as the    *)
(* loop of main makes it; the destination and the sources are built as     *)
(* independent trees.  After a merge the chain may merge the same source   *)
(* once more, and before any merge it may merge d into itself.             *)

ChainDocs ==
    {None, PyBool(TRUE), PyInt(1), PyFloat(3), PyStr(<<"a">>), PyDict(<<>>),
     IntList(<<1, 2, 1>>), IntList(<<2, 3>>), PyList(<<PyFloat(2), PyBool(TRUE)>>),
     IntDict(<<"a", "b">>, <<1, 2>>), IntDict(<<"b", "a">>, <<2, 1>>),
     PyDict(<< <<"a", PyStr(<<"a">>)>>, <<"b", PyInt(3)>> >>),
     PyDict(<< <<"a", IntList(<<1>>)>> >>), PyDict(<< <<"a", IntList(<<2, 2>>)>> >>),
     PyDict(<< <<"a", IntDict(<<"x">>, <<1>>)>> >>),
     PyDict(<< <<"a", IntDict(<<"y">>, <<2>>)>> >>),
     PyList(<< IntList(<<1>>), IntDict(<<"x">>, <<1>>) >>)}

(* load, for each of docs from the i-th on; acc are the values so far. *)
RECURSIVE load_all(_, _, _, _)
load_all(h, docs, i, acc) ==
    IF i > Len(docs) THEN [h |-> h, vs |-> acc]
    ELSE LET r == load(h, docs[i])
         IN  load_all(r.h, docs, i + 1, Append(acc, r.v))

ChainInit ==
    \E x \in ChainDocs, ys \in [1..MaxSources -> ChainDocs] :
        LET r0 == load(<<>>, x)
            rs == load_all(r0.h, ys, 1, <<>>)
        IN  /\ heap = rs.h
            /\ chain = [d |-> r0.v, d0 |-> r0.v, sources |-> rs.vs, n |-> 0,
                        h0 |-> rs.h, hprev |-> rs.h, dprev |-> r0.v,
                        err |-> NoError, last |-> "none", plain |-> TRUE]
            /\ arg1 = None
            /\ arg2 = None
            /\ call = NoCall
            /\ cli = NoCli

(* What a call merge(d, value2) of the chain leaves: d is assigned only    *)
(* when the call returns.                                                  *)
ChainCall(value2, kind) ==
    LET r == merge(heap, chain.d, value2)
    IN  /\ heap' = r.h
        /\ chain' = [chain EXCEPT !.d = IF r.err = NoError THEN r.v ELSE @,
                                  !.hprev = heap, !.dprev = chain.d,
                                  !.err = r.err, !.last = kind,
                                  !.n = IF kind = "next" THEN @ + 1 ELSE @,
                                  !.plain = @ /\ kind = "next"]
        /\ UNCHANGED <<arg1, arg2, call, cli>>

(* d = merge(d, s) for the next source *)
ChainMerge ==
    /\ chain.err = NoError
    /\ chain.n < Len(chain.sources)
    /\ chain.last \in {"none", "next"}
    /\ ChainCall(chain.sources[chain.n + 1], "next")

(* d = merge(d, s) once more for the source merged last *)
ChainMergeAgain ==
    /\ chain.err = NoError
    /\ chain.last = "next"
    /\ ChainCall(chain.sources[chain.n], "again")

(* d = merge(d, d) *)
ChainMergeSelf ==
    /\ chain.last = "none"
    /\ ChainCall(chain.d, "self")

ChainNext == ChainMerge \/ ChainMergeAgain \/ ChainMergeSelf

SpecChain == ChainInit /\ [][ChainNext]_vars

ChainBefore == Content(chain.hprev, chain.dprev)    \* d before the last call
ChainNow == Content(heap, chain.d)                  \* d as the last call has left it
ChainSource(i) == Content(chain.h0, chain.sources[i])   \* the i-th source as built

(* C11: merging x with itself, or with a structurally equal value, returns *)
(* without error and leaves x with the content it had: the same keys and   *)
(* values at every depth, and no element appended to a list.               *)
C11_SelfMergeIdempotent ==
    /\ chain.last = "self" =>
           /\ chain.err = NoError
           /\ ChainNow = ChainBefore
           /\ Content(heap, chain.dprev) = ChainBefore
    /\ (chain.last = "next" /\ chain.n = 1 /\ Equivalent(ChainBefore, ChainSource(1))) =>
           /\ chain.err = NoError
           /\ ChainNow = ChainBefore
           /\ Content(heap, chain.dprev) = ChainBefore

(* a dict holding a list with a repeated element has been merged with     *)
(* itself                                                                  *)
C11_Witness ==
    /\ chain.last = "self"
    /\ chain.err = NoError
    /\ ChainBefore = PyDict(<< <<"a", IntList(<<2, 2>>)>> >>)
    /\ ChainNow = ChainBefore

---------------------------------------------------------------------------
(* main.  A path is its stem and its suffix; a file holds the document its *)
(* bytes parse to, or bytes that do not parse (Malformed, or Empty as      *)
(* open(mode='wb') leaves it); Missing says that there is no such file.    *)
(* A run of main is a sequence of steps, one for each open, load, merge    *)
(* and save, so that what the files hold between the steps can be seen.    *)

Path(stem, suffix) == [stem |-> stem, suffix |-> suffix]
Missing == [k |-> "missing"]
Malformed == [k |-> "malformed"]
Empty == [k |-> "empty"]
ErrFileNotFound == "FileNotFoundError"
ErrUnknownFileType == "unknown file type"
ErrDecode == "JSONDecodeError"
KnownSuffixes == {".yml", ".yaml", ".json", ".properties"}

DestinationPaths == {Path("out", ".json"), Path("out", ".txt")}
MergePaths == {Path("a", ".json"), Path("b", ".json"), Path("c", ".txt")}
Paths == DestinationPaths \cup MergePaths

FileDocs ==
    {None, IntDict(<<"a", "b">>, <<1, 2>>), IntDict(<<"b", "c">>, <<3, 4>>),
     PyDict(<< <<"a", IntList(<<1>>)>> >>), PyDict(<< <<"a", IntList(<<2>>)>> >>),
     IntList(<<1, 2>>)}

(* load(f) for the file at path, opened on its first read: the suffix is   *)
(* looked at first, then the file is read and parsed.                      *)
load_file(h, files, path) ==
    IF path.suffix \notin KnownSuffixes THEN Raise(h, ErrUnknownFileType)
    ELSE IF files[path] = Missing THEN Raise(h, ErrFileNotFound)
    ELSE IF files[path] \in {Malformed, Empty} THEN Raise(h, ErrDecode)
    ELSE LET r == load(h, files[path])
         IN  Return(r.h, r.v)

(* the loop over merge_files is over once i has passed the last of them *)
loop_left_before_last(i, merge_files) == i >= Len(merge_files)

loop_exhausted(i, merge_files) == i > Len(merge_files)

(* d = merge(d, m) with the two arguments exchanged *)
main_merge_swapped(h, d, m) == merge(h, m, d)

main_merge(h, d, m) == merge(h, d, m)

MainInit ==
    \E destination \in DestinationPaths, merge_files \in SeqsOver(MergePaths, MaxSources) :
    \E content \in [{destination, Path("a", ".json"), Path("b", ".json")} ->
                        FileDocs \cup {Missing, Malformed}] :
        LET files == [p \in Paths |->
                         IF p \in DOMAIN content THEN content[p]
                         ELSE IF p \in MergePaths THEN None ELSE Missing]
        IN  /\ cli = [pc |-> "start", destination |-> destination,
                      merge_files |-> merge_files, files |-> files, files0 |-> files,
                      d |-> None, m |-> None, i |-> 1, err |-> NoError,
                      stage |-> "none", log |-> <<>>]
            /\ heap = <<>>
            /\ arg1 = None
            /\ arg2 = None
            /\ call = NoCall
            /\ chain = NoChain

Fail(stage, err) ==
    cli' = [cli EXCEPT !.pc = "failed", !.stage = stage, !.err = err]

(* try: with open(destination, mode='rb') as f: d = load(f)                *)
(* except FileNotFoundError: d = None                                      *)
LoadDestination ==
    /\ cli.pc = "start"
    /\ IF cli.files[cli.destination] = Missing
       THEN /\ cli' = [cli EXCEPT !.pc = "loop", !.d = None,
                                  !.log = Append(@, <<"load", 0>>)]
            /\ UNCHANGED heap
       ELSE LET r == load_file(heap, cli.files, cli.destination)
            IN  IF r.err # NoError
                THEN Fail("load", r.err) /\ UNCHANGED heap
                ELSE /\ cli' = [cli EXCEPT !.pc = "loop", !.d = r.v,
                                           !.log = Append(@, <<"load", 0>>)]
                     /\ heap' = r.h
    /\ UNCHANGED <<arg1, arg2, call, chain>>

(* m = load(merge_file) *)
LoadMergeFile ==
    /\ cli.pc = "loop"
    /\ ~loop_exhausted(cli.i, cli.merge_files)
    /\ LET r == load_file(heap, cli.files, cli.merge_files[cli.i])
       IN  IF r.err # NoError
           THEN Fail("load", r.err) /\ UNCHANGED heap
           ELSE /\ cli' = [cli EXCEPT !.pc = "merge", !.m = r.v,
                                      !.log = Append(@, <<"load", cli.i>>)]
                /\ heap' = r.h
    /\ UNCHANGED <<arg1, arg2, call, chain>>

(* d = merge(d, m) *)
MergeIntoDestination ==
    /\ cli.pc = "merge"
    /\ LET r == main_merge(heap, cli.d, cli.m)
       IN  /\ heap' = r.h
           /\ IF r.err # NoError
              THEN Fail("merge", r.err)
              ELSE cli' = [cli EXCEPT !.pc = "loop", !.d = r.v, !.i = @ + 1,
                                      !.log = Append(@, <<"merge", cli.i>>)]
    /\ UNCHANGED <<arg1, arg2, call, chain>>

(* with open(destination, mode='wb') as f: the file is created or emptied *)
OpenDestination ==
    /\ cli.pc = "loop"
    /\ loop_exhausted(cli.i, cli.merge_files)
    /\ cli' = [cli EXCEPT !.pc = "save", !.files[cli.destination] = Empty,
                          !.log = Append(@, <<"open", 0>>)]
    /\ UNCHANGED <<heap, arg1, arg2, call, chain>>

(* save(f, d) *)
SaveDestination ==
    /\ cli.pc = "save"
    /\ IF cli.destination.suffix \notin KnownSuffixes
       THEN Fail("save", ErrUnknownFileType)
       ELSE cli' = [cli EXCEPT !.pc = "done",
                               !.files[cli.destination] = Content(heap, cli.d),
                               !.log = Append(@, <<"save", 0>>)]
    /\ UNCHANGED <<heap, arg1, arg2, call, chain>>

MainNext ==
    \/ LoadDestination
    \/ LoadMergeFile
    \/ MergeIntoDestination
    \/ OpenDestination
    \/ SaveDestination

SpecMain == MainInit /\ [][MainNext]_vars

(* What a run of main has done so far, and what it has to have done       *)
(* before it writes: the destination loaded, then every merge file loaded  *)
(* and merged, one after the other.                                        *)
NumMergeFiles == Len(cli.merge_files)
OpenedForWriting == \E j \in 1..Len(cli.log) : cli.log[j][1] = "open"
FullLog(n) ==
    [j \in 1..(2 * n + 1) |->
        IF j = 1 THEN <<"load", 0>>
        ELSE IF j % 2 = 0 THEN <<"load", j \div 2>> ELSE <<"merge", j \div 2>>]

(* C12: main opens the destination for writing only after the destination *)
(* and every merge file have been loaded and every merge has returned; and *)
(* a run that a load or a merge has ended has not opened the destination   *)
(* for writing and leaves every file, the destination among them, with the *)
(* content it had when the run started.                                    *)
C12_WriteOnlyAfterFullMerge ==
    /\ \A j \in 1..Len(cli.log) :
           cli.log[j][1] = "open" => SubSeq(cli.log, 1, j - 1) = FullLog(NumMergeFiles)
    /\ ~OpenedForWriting => cli.files = cli.files0
    /\ (cli.pc = "failed" /\ cli.stage \in {"load", "merge"}) =>
           /\ ~OpenedForWriting
           /\ cli.files[cli.destination] = cli.files0[cli.destination]

(* the second merge of a run on an existing destination has raised, after  *)
(* the first had been merged into d                                        *)
C12_Witness ==
    /\ cli.pc = "failed"
    /\ cli.stage = "merge"
    /\ cli.err \in TypeErrors
    /\ cli.log = <<<<"load", 0>>, <<"load", 1>>, <<"merge", 1>>, <<"load", 2>>>>
    /\ IsDict(cli.files0[cli.destination])
    /\ cli.files[cli.destination] = cli.files0[cli.destination]

(* merge(...merge(merge(d, docs[i]), docs[i+1])..., docs[n]), each document *)
(* loaded just before it is merged                                         *)
RECURSIVE FoldMerge(_, _, _, _)
FoldMerge(h, d, docs, i) ==
    IF i > Len(docs) THEN Return(h, d)
    ELSE LET l == load(h, docs[i])
             r == merge(l.h, d, l.v)
         IN  IF r.err # NoError THEN r ELSE FoldMerge(r.h, r.v, docs, i + 1)

C14_FailureLeavesBaseUntouched ==
    (Called("merge") /\ Raised) => BaseNow = Base0

(* C15: along a chain d = merge(d, s1); d = merge(d, s2); ... on trees     *)
(* built independently, every source holds the content it was built with,  *)
(* after the call that merges it and after every later call.               *)
C15_SourcesNeverModified ==
    chain.plain =>
        \A i \in 1..Len(chain.sources) : Content(heap, chain.sources[i]) = ChainSource(i)

(* C16: when merge(a, b) has returned, merging b once more into what it   *)
(* returned also returns, and leaves the result with the content it had:   *)
(* merge(merge(a, b), b) equals merge(a, b).                               *)
C16_ReapplyingIsNoOp ==
    chain.last = "again" =>
        /\ chain.err = NoError
        /\ ChainNow = ChainBefore
        /\ Content(heap, chain.dprev) = ChainBefore

(* {'a': [2, 2]} has been merged into {'a': [1]}, giving {'a': [1, 2]},    *)
(* and then merged into it once more                                       *)
C16_Witness ==
    /\ chain.last = "again"
    /\ chain.n = 1
    /\ Content(chain.h0, chain.d0) = PyDict(<< <<"a", IntList(<<1>>)>> >>)
    /\ ChainSource(1) = PyDict(<< <<"a", IntList(<<2, 2>>)>> >>)
    /\ ChainBefore = PyDict(<< <<"a", IntList(<<1, 2>>)>> >>)
    /\ ChainNow = ChainBefore

=============================================================================
